---- MODULE Spec2Model ----
(***************************************************************************)
(* A* search with a cost function of the previous and the current edge     *)
(* (networkx_astar_path/astar.py): astar_path and astar_path_length.       *)
(*                                                                         *)
(* Numbers are fixed-point with one binary fractional digit: every cost,   *)
(* heuristic value and length of the model is a count of halves (the       *)
(* test-suite's dependent_weight divides 7 by -2).  An edge attribute is   *)
(* a plain integer and is converted by Halves when it is used as a cost.   *)
(***************************************************************************)
EXTENDS Integers, Sequences, FiniteSets, TLC

VARIABLES
    graph,      \* [nodes, edges, attr, multigraph]: the graph collaborator
    source,     \* argument
    target,     \* argument
    heuristic,  \* argument: [given, fn]; not given is Python's None
    weight,     \* argument: [callable, fn]; not callable is the name "weight"
    call,       \* the entry point called: "astar_path" or "astar_path_length"
    pc,         \* position of the call
    wf,         \* the cost function _weight_function returned: [set, callable, fn]
    queue,      \* the heap: a set of frontier entries
    enqueued,   \* node -> [cost, h]
    explored,   \* node -> parent (or None)
    c,          \* the next value of count()
    curdist,    \* the accumulated cost (dist) of the entry popped last
    node,       \* cursor of the path reconstruction loop
    path,       \* the path under reconstruction, then the returned path
    length,     \* the value astar_path_length returns
    hcalls,     \* node -> number of evaluations of the heuristic (history)
    wcalls,     \* number of evaluations of the cost function (history)
    writes      \* node -> number of executions of "explored[curnode] = parent"

vars == <<graph, source, target, heuristic, weight, call, pc, wf, queue,
          enqueued, explored, c, curdist, node, path, length, hcalls,
          wcalls, writes>>

inputs == <<graph, source, target, heuristic, weight, call>>

(***************************************************************************)
(* Bounds of the model.                                                    *)
(***************************************************************************)
\* largest edge attribute, and largest value (in halves) of a cost table
MaxW == 1
\* largest heuristic value (in halves)
MaxH == 1
\* number of frontier entries after which a search is cut off as unbounded
MaxSeq == 14

None == "None"

\* The nodes any graph of the model draws from, in adjacency order.
NodeOrder == <<"S", "A1", "A2", "B2", "C2", "T">>

Universe == {NodeOrder[i] : i \in 1..Len(NodeOrder)}

Halves(x) == 2 * x

(***************************************************************************)
(* The graph collaborator.                                                 *)
(***************************************************************************)
\* graph[curnode].items(): the neighbours of u, in adjacency order
Neighbors(g, u) == SelectSeq(NodeOrder, LAMBDA v : <<u, v>> \in g.edges)

\* graph.get_edge_data(u, v)["weight"]
EdgeData(g, e) == g.attr[e]

\* The (previous node, node, neighbour) triples on which a cost function can
\* be asked during a search from src: the first edge of a path leaves src and
\* has no previous edge, every later edge follows an edge that ends where it
\* starts.
Triples(edges, src) ==
    {<<None, e[1], e[2]>> : e \in {d \in edges : d[1] = src}}
        \cup {<<pe[1][1], pe[2][1], pe[2][2]>> :
                pe \in {x \in edges \X edges : x[1][2] = x[2][1]}}

(***************************************************************************)
(* Weight resolver and heuristic.                                          *)
(***************************************************************************)
Unset == [kind |-> "unset", fn |-> <<>>]

\* (mutation) the multigraph test made before the callable test
WeightFunctionMultiFirst(g, w) ==
    IF g.multigraph THEN [kind |-> "NotImplementedError", fn |-> <<>>]
    ELSE IF w.callable THEN [kind |-> "callable", fn |-> w.fn]
    ELSE [kind |-> "lambda", fn |-> <<>>]

\* _weight_function: a callable is returned unchanged; an attribute name on a
\* multigraph raises; otherwise the lambda reading the attribute is returned.
WeightFunction(g, w) ==
    IF w.callable THEN [kind |-> "callable", fn |-> w.fn]
    ELSE IF g.multigraph THEN [kind |-> "NotImplementedError", fn |-> <<>>]
    ELSE [kind |-> "lambda", fn |-> <<>>]

\* The argument of a cost function for "no previous edge" is None.
PrevNode(prev) == IF prev = <<>> THEN None ELSE prev[1]

\* A call weight(graph, prev_edge, cur_edge) of a resolved cost function:
\* the lambda reads the current edge's attribute and ignores prev_edge.
Cost(w, g, prev, cur) ==
    IF w.kind = "lambda" THEN Halves(EdgeData(g, cur))
    ELSE w.fn[<<PrevNode(prev), cur[1], cur[2]>>]

\* (mutation) the previous edge not looked at
DependentWeightNoPrev(g, prev, cur) == Halves(EdgeData(g, cur))

\* The test-suite's dependent_weight: the current edge's attribute, divided
\* by the previous edge's attribute when there is a previous edge.  The
\* quotient is exact in halves whenever the divisor divides twice the
\* dividend, which the graphs that use it guarantee.
DependentWeight(g, prev, cur) ==
    IF prev = <<>> THEN Halves(EdgeData(g, cur))
    ELSE LET pw == EdgeData(g, prev)
             cw == EdgeData(g, cur)
         IN  IF pw > 0 THEN Halves(cw) \div pw ELSE 0 - (Halves(cw) \div (0 - pw))

\* heuristic(u, target); _default_heuristic returns 0
H(h, u) == IF h.given THEN h.fn[u] ELSE 0

(***************************************************************************)
(* The frontier.                                                           *)
(***************************************************************************)
Entry(prio, seq, n, dist, parent, epath) ==
    [prio |-> prio, seq |-> seq, node |-> n, dist |-> dist, parent |-> parent,
     path |-> epath]

\* (mutation) among equal priorities the entry pushed last
MinEntryLatest(q) ==
    CHOOSE e \in q : \A f \in q :
        e.prio < f.prio \/ (e.prio = f.prio /\ e.seq >= f.seq)

\* heappop: the smallest tuple; tuples compare by priority, then by counter
MinEntry(q) ==
    CHOOSE e \in q : \A f \in q :
        e.prio < f.prio \/ (e.prio = f.prio /\ e.seq <= f.seq)

\* (mutation) no previous edge handed to the cost function
PrevEdgeNone(e) == <<>>

\* prev_edge of an expansion: (explored_path[-2], curnode), None on IndexError
PrevEdge(e) ==
    IF Len(e.path) >= 2 THEN <<e.path[Len(e.path) - 1], e.node>> ELSE <<>>

\* (mutation) a neighbour already enqueued is never pushed again
NoImprovementEver(qcost, ncost) == TRUE

\* (mutation) a path of equal cost counts as an improvement
NoImprovementStrict(qcost, ncost) == qcost < ncost

\* (mutation) every neighbour is pushed, improvement or not
ImprovementAlways(qcost, ncost) == FALSE

\* "if qcost <= ncost: continue": the neighbour is not pushed
NoImprovement(qcost, ncost) == qcost <= ncost

\* (mutation) the heuristic evaluated at every push
EvaluateAlways(known) == TRUE

\* "else: h = heuristic(neighbor, target)": only for a neighbour not in enqueued
Evaluate(known) == ~known

\* One pass of the loop over graph[curnode].items() for neighbour number i,
\* then the rest.  st is [queue, enqueued, c, hcalls, wcalls].
RECURSIVE ExpandFrom(_, _, _, _)
ExpandFrom(e, nbrs, i, st) ==
    IF i > Len(nbrs) THEN st
    ELSE
        LET neighbor == nbrs[i]
            ncost == e.dist + Cost(wf, graph, PrevEdge(e), <<e.node, neighbor>>)
            known == neighbor \in DOMAIN st.enqueued
            st1 == [st EXCEPT !.wcalls = @ + 1]
        IN  IF known /\ NoImprovement(st.enqueued[neighbor].cost, ncost)
            THEN ExpandFrom(e, nbrs, i + 1, st1)
            ELSE
                LET h == IF Evaluate(known) THEN H(heuristic, neighbor)
                         ELSE st.enqueued[neighbor].h
                    st2 == [st1 EXCEPT
                        !.enqueued = (neighbor :> [cost |-> ncost, h |-> h]) @@ @,
                        !.queue = @ \cup {Entry(ncost + h, st.c, neighbor, ncost,
                                                e.node, Append(e.path, neighbor))},
                        !.c = @ + 1,
                        !.hcalls = IF Evaluate(known)
                                   THEN [@ EXCEPT ![neighbor] = @ + 1]
                                   ELSE @]
                IN  ExpandFrom(e, nbrs, i + 1, st2)

Expand(e) ==
    ExpandFrom(e, Neighbors(graph, e.node), 1,
               [queue |-> queue \ {e}, enqueued |-> enqueued, c |-> c,
                hcalls |-> hcalls, wcalls |-> wcalls])

\* The entry the next iteration pops.
Popped == MinEntry(queue)

\* (mutation) the first entry popped is not tested
IsTargetLater(e) == e.node = target /\ e.parent /= None

\* "if curnode == target"
IsTarget(e) == e.node = target

\* (mutation) the starting node not protected
SkipSourceNever(e) == FALSE

\* (mutation) the starting node protected from costlier entries only
SkipSourceUnlessCheaper(e) ==
    e.node \in DOMAIN explored /\ explored[e.node] = None /\ e.dist >= 0

\* "if curnode in explored" with a parent of None: the starting node
SkipSource(e) == e.node \in DOMAIN explored /\ explored[e.node] = None

\* (mutation) no entry counts as stale
StaleNever(qcost, dist) == FALSE

\* (mutation) an entry of equal cost counts as stale
StaleOrEqual(qcost, dist) == qcost <= dist

\* "if qcost < dist: continue"
Stale(qcost, dist) == qcost < dist

\* an explored node popped again after a better path to it was enqueued
SkipStale(e) ==
    /\ e.node \in DOMAIN explored
    /\ explored[e.node] /= None
    /\ Stale(enqueued[e.node].cost, e.dist)

Reverse(s) == [i \in 1..Len(s) |-> s[Len(s) + 1 - i]]

\* astar_path_length's sum over the path's edges, each with the edge before it
RECURSIVE SumFrom(_, _, _)
SumFrom(path_edges, i, acc) ==
    IF i >= Len(path_edges) THEN acc
    ELSE SumFrom(path_edges, i + 1,
                 acc + Cost(wf, graph, path_edges[i], path_edges[i + 1]))

\* (mutation) the leading None left out of path_edges
PathEdgesNoSentinel(p) == [i \in 1..(Len(p) - 1) |-> <<p[i], p[i + 1]>>]

PathEdges(p) == <<<<>>>> \o [i \in 1..(Len(p) - 1) |-> <<p[i], p[i + 1]>>]

PathLength(p) == SumFrom(PathEdges(p), 1, 0)

(***************************************************************************)
(* Initial states: the arguments of one call.                              *)
(***************************************************************************)
Graph(nodes, edges, attr, multi) ==
    [nodes |-> nodes, edges |-> edges, attr |-> attr, multigraph |-> multi]

NoHeuristic == [given |-> FALSE, fn |-> <<>>]

ByName == [callable |-> FALSE, fn |-> <<>>]

Callable(fn) == [callable |-> TRUE, fn |-> fn]

Small == {"S", "A1", "A2", "T"}

\* candidate edges of the graphs searched with a cost table
TableEdges ==
    {<<"S", "A1">>, <<"S", "A2">>, <<"A1", "A2">>, <<"A2", "A1">>, <<"A1", "T">>}

\* candidate edges of the graphs searched by attribute
AttrEdges ==
    {<<"S", "A1">>, <<"S", "A2">>, <<"A1", "A2">>, <<"A2", "A1">>,
     <<"A1", "T">>, <<"A2", "T">>}

\* the test-suite's graph fixture
FixtureEdges ==
    {<<"S", "A1">>, <<"A1", "T">>, <<"S", "A2">>, <<"A2", "B2">>,
     <<"B2", "C2">>, <<"C2", "T">>}

FixtureAttr ==
    [e \in FixtureEdges |->
        IF e = <<"S", "A1">> THEN -2 ELSE IF e = <<"A1", "T">> THEN 7 ELSE 1]

Fixture == Graph(Universe, FixtureEdges, FixtureAttr, FALSE)

\* dependent_weight as the callable handed to the search
DependentTable(g, src) ==
    [t \in Triples(g.edges, src) |->
        DependentWeight(g, IF t[1] = None THEN <<>> ELSE <<t[1], t[2]>>,
                        <<t[2], t[3]>>)]

Started ==
    /\ pc = IF call = "astar_path_length" THEN "length" ELSE "path"
    /\ wf = Unset
    /\ queue = {}
    /\ enqueued = <<>>
    /\ explored = <<>>
    /\ c = 0
    /\ curdist = 0
    /\ node = None
    /\ path = <<>>
    /\ length = 0
    /\ hcalls = [n \in Universe |-> 0]
    /\ wcalls = 0
    /\ writes = [n \in Universe |-> 0]

\* a history-sensitive cost table on a small graph, default heuristic
InitTable ==
    /\ \E edges \in SUBSET TableEdges :
         /\ graph = Graph(Small, edges, [e \in edges |-> 0], FALSE)
         /\ \E fn \in [Triples(edges, "S") -> (-1)..MaxW] : weight = Callable(fn)
    /\ source = "S"
    /\ target = "T"
    /\ heuristic = NoHeuristic
    /\ call = "astar_path_length"

\* attribute weights on a small graph, any heuristic table or none
InitAttr ==
    /\ \E edges \in SUBSET AttrEdges :
         \E attr \in [edges -> 0..MaxW] :
            graph = Graph(Small, edges, attr, FALSE)
    /\ weight = ByName
    /\ source = "S"
    /\ target = "T"
    /\ \/ heuristic = NoHeuristic
       \/ \E fn \in [{"A1", "A2", "T"} -> 0..MaxH] :
            heuristic = [given |-> TRUE, fn |-> fn]
    /\ call = "astar_path_length"

\* the test-suite's fixture, by attribute and by dependent_weight
InitFixture ==
    /\ graph = Fixture
    /\ source = "S"
    /\ target = "T"
    /\ heuristic = NoHeuristic
    /\ weight \in {ByName, Callable(DependentTable(Fixture, "S"))}
    /\ call \in {"astar_path", "astar_path_length"}

\* argument errors: absent nodes, multigraphs, source = target
InitArgs ==
    /\ source \in {"S", "B2"}
    /\ target \in {"T", "S", "C2"}
    /\ \E edges \in SUBSET {<<"S", "A1">>, <<"A1", "T">>, <<"A1", "S">>} :
         \E multi \in BOOLEAN :
            /\ graph = Graph({"S", "A1", "T"}, edges, [e \in edges |-> 1], multi)
            /\ weight \in {ByName,
                           Callable([t \in Triples(edges, source) |-> 1])}
    /\ heuristic = NoHeuristic
    /\ call \in {"astar_path", "astar_path_length"}

\* a graph with an edge back to the source, cost table, heuristic table or none
InitBack ==
    /\ \E edges \in SUBSET {<<"S", "A1">>, <<"A1", "S">>, <<"A1", "T">>} :
         /\ graph = Graph({"S", "A1", "T"}, edges, [e \in edges |-> 0], FALSE)
         /\ \E fn \in [Triples(edges, "S") -> (-1)..MaxW] : weight = Callable(fn)
    /\ source = "S"
    /\ target = "T"
    /\ heuristic \in {NoHeuristic,
                      [given |-> TRUE, fn |-> [n \in {"S", "A1", "T"} |-> MaxH]]}
    /\ call = "astar_path_length"

\* two ways into A1 and one out of it, a cost table with a wider range,
\* no heuristic or an inadmissible one
DetourEdges == {<<"S", "A1">>, <<"S", "A2">>, <<"A2", "A1">>, <<"A1", "T">>}

\* a heuristic that overestimates the cost from A2
Overestimate ==
    [given |-> TRUE,
     fn |-> [n \in {"S", "A1", "A2", "T"} |-> IF n = "A2" THEN MaxW + 1 ELSE 0]]

InitDetour ==
    /\ graph = Graph({"S", "A1", "A2", "T"}, DetourEdges,
                     [e \in DetourEdges |-> 0], FALSE)
    /\ source = "S"
    /\ target = "T"
    /\ \E fn \in [Triples(DetourEdges, "S") -> (-1)..(MaxW + 1)] :
         weight = Callable(fn)
    /\ heuristic \in {NoHeuristic, Overestimate}
    /\ call \in {"astar_path", "astar_path_length"}

Init ==
    /\ InitTable \/ InitAttr \/ InitFixture \/ InitArgs \/ InitBack \/ InitDetour
    /\ Started

(***************************************************************************)
(* The steps of a call.                                                    *)
(***************************************************************************)
\* (mutation) the target not looked up
AbsentSource == source \notin graph.nodes

\* "if source not in graph or target not in graph"
Absent == source \notin graph.nodes \/ target \notin graph.nodes

\* astar_path_length up to its call of astar_path
LengthEnter ==
    /\ pc = "length"
    /\ IF Absent
       THEN pc' = "NodeNotFound" /\ wf' = wf
       ELSE /\ wf' = WeightFunction(graph, weight)
            /\ pc' = IF wf'.kind = "NotImplementedError"
                     THEN "NotImplementedError" ELSE "path"
    /\ UNCHANGED <<inputs, queue, enqueued, explored, c, curdist, node, path, length,
                   hcalls, wcalls, writes>>

\* astar_path up to its loop; called by astar_path_length, its weight
\* argument is the cost function already resolved, a callable
PathEnter ==
    /\ pc = "path"
    /\ IF Absent
       THEN pc' = "NodeNotFound" /\ UNCHANGED <<wf, queue, c>>
       ELSE /\ wf' = IF wf = Unset THEN WeightFunction(graph, weight) ELSE wf
            /\ IF wf'.kind = "NotImplementedError"
               THEN pc' = "NotImplementedError" /\ UNCHANGED <<queue, c>>
               ELSE /\ pc' = "run"
                    /\ queue' = {Entry(0, 0, source, 0, None, <<source>>)}
                    /\ c' = 1
    /\ UNCHANGED <<inputs, enqueued, explored, curdist, node, path, length, hcalls,
                   wcalls, writes>>

\* an iteration that pops the target: the reconstruction starts
PopTarget ==
    /\ pc = "run" /\ queue /= {}
    /\ IsTarget(Popped)
    /\ queue' = queue \ {Popped}
    /\ curdist' = Popped.dist
    /\ path' = <<Popped.node>>
    /\ node' = Popped.parent
    /\ pc' = "walk"
    /\ UNCHANGED <<inputs, wf, enqueued, explored, c, length, hcalls, wcalls,
                   writes>>

\* an iteration that ends at a "continue"
PopSkip ==
    /\ pc = "run" /\ queue /= {}
    /\ ~IsTarget(Popped)
    /\ SkipSource(Popped) \/ SkipStale(Popped)
    /\ queue' = queue \ {Popped}
    /\ curdist' = Popped.dist
    /\ UNCHANGED <<inputs, pc, wf, enqueued, explored, c, node, path, length,
                   hcalls, wcalls, writes>>

\* an iteration that records the parent and pushes the neighbours
PopExpand ==
    /\ pc = "run" /\ queue /= {}
    /\ c < MaxSeq
    /\ ~IsTarget(Popped)
    /\ ~SkipSource(Popped) /\ ~SkipStale(Popped)
    /\ curdist' = Popped.dist
    /\ explored' = (Popped.node :> Popped.parent) @@ explored
    /\ LET st == Expand(Popped)
       IN  /\ queue' = st.queue
           /\ enqueued' = st.enqueued
           /\ c' = st.c
           /\ hcalls' = st.hcalls
           /\ wcalls' = st.wcalls
    /\ writes' = [writes EXCEPT ![Popped.node] = @ + 1]
    /\ UNCHANGED <<inputs, pc, wf, node, path, length>>

\* the search is still pushing after MaxSeq entries: it is cut off here
Unbounded ==
    /\ pc = "run" /\ queue /= {}
    /\ c >= MaxSeq
    /\ ~IsTarget(Popped)
    /\ ~SkipSource(Popped) /\ ~SkipStale(Popped)
    /\ pc' = "unbounded"
    /\ UNCHANGED <<inputs, wf, queue, enqueued, explored, c, curdist, node, path,
                   length, hcalls, wcalls, writes>>

\* (mutation) the loop left while one entry still waits
ExhaustedEarly ==
    /\ pc = "run"
    /\ Cardinality(queue) <= 1
    /\ pc' = "NetworkXNoPath"
    /\ UNCHANGED <<inputs, wf, queue, enqueued, explored, c, curdist, node, path,
                   length, hcalls, wcalls, writes>>

\* the loop ends with an empty queue
Exhausted ==
    /\ pc = "run" /\ queue = {}
    /\ pc' = "NetworkXNoPath"
    /\ UNCHANGED <<inputs, wf, queue, enqueued, explored, c, curdist, node, path,
                   length, hcalls, wcalls, writes>>

\* one pass of "while node is not None"
Walk ==
    /\ pc = "walk" /\ node /= None
    /\ Len(path) <= Cardinality(graph.nodes)
    /\ path' = Append(path, node)
    /\ node' = explored[node]
    /\ UNCHANGED <<inputs, pc, wf, queue, enqueued, explored, c, curdist, length,
                   hcalls, wcalls, writes>>

\* the walk has collected more nodes than the graph has: it is in a cycle of
\* parent links and never leaves it
WalkForever ==
    /\ pc = "walk" /\ node /= None
    /\ Len(path) > Cardinality(graph.nodes)
    /\ pc' = "unbounded"
    /\ UNCHANGED <<inputs, wf, queue, enqueued, explored, c, curdist, node, path,
                   length, hcalls, wcalls, writes>>

\* path.reverse(); return path
Return ==
    /\ pc = "walk" /\ node = None
    /\ path' = Reverse(path)
    /\ pc' = IF call = "astar_path_length" THEN "sum" ELSE "done"
    /\ UNCHANGED <<inputs, wf, queue, enqueued, explored, c, curdist, node, length,
                   hcalls, wcalls, writes>>

\* astar_path_length after astar_path returned
Sum ==
    /\ pc = "sum"
    /\ length' = PathLength(path)
    /\ wcalls' = wcalls + (Len(path) - 1)
    /\ pc' = "done"
    /\ UNCHANGED <<inputs, wf, queue, enqueued, explored, c, curdist, node, path,
                   hcalls, writes>>

Next ==
    \/ LengthEnter
    \/ PathEnter
    \/ PopTarget
    \/ PopSkip
    \/ PopExpand
    \/ Unbounded
    \/ Exhausted
    \/ Walk
    \/ WalkForever
    \/ Return
    \/ Sum

Spec == Init /\ [][Next]_vars

\* a call keeps running until it returns or raises
FairSpec == Spec /\ WF_vars(Next)

(***************************************************************************)
(* Vocabulary of the properties.                                           *)
(***************************************************************************)
\* the cost function the call's weight argument stands for
W == WeightFunction(graph, weight)

Present == source \in graph.nodes /\ target \in graph.nodes

Searchable == Present /\ W.kind /= "NotImplementedError"

\* astar_path has returned its path
Returned == pc \in {"sum", "done"}

Last(s) == s[Len(s)]

Range(s) == {s[i] : i \in 1..Len(s)}

\* the simple paths of the graph that extend p to node t
RECURSIVE PathsFrom(_, _)
PathsFrom(p, t) ==
    IF Last(p) = t THEN {p}
    ELSE UNION {PathsFrom(Append(p, v), t) :
                  v \in {x \in graph.nodes \ Range(p) : <<Last(p), x>> \in graph.edges}}

SimplePaths == PathsFrom(<<source>>, target)

Reachable == SimplePaths /= {}

\* the cost of the k-th edge of p, given the edge before it
EdgeCost(p, k) ==
    Cost(W, graph, IF k = 1 THEN <<>> ELSE <<p[k - 1], p[k]>>, <<p[k], p[k + 1]>>)

\* the total cost of p: the sum of its first k edge costs, for k = Len(p) - 1
RECURSIVE Replay(_, _)
Replay(p, k) == IF k = 0 THEN 0 ELSE Replay(p, k - 1) + EdgeCost(p, k)

Total(p) == Replay(p, Len(p) - 1)

IsPath(p) ==
    /\ Len(p) >= 1
    /\ p[1] = source
    /\ Last(p) = target
    /\ \A i \in 1..(Len(p) - 1) : <<p[i], p[i + 1]>> \in graph.edges

AllCosts ==
    {Cost(W, graph, IF t[1] = None THEN <<>> ELSE <<t[1], t[2]>>, <<t[2], t[3]>>) :
        t \in Triples(graph.edges, source)}

NonNegative == Searchable /\ \A x \in AllCosts : x >= 0

\* the cost of an edge is the same after every previous edge
IgnoresPrev ==
    \/ W.kind = "lambda"
    \/ /\ W.kind = "callable"
       /\ \A t1, t2 \in DOMAIN W.fn :
         (t1[2] = t2[2] /\ t1[3] = t2[3]) => W.fn[t1] = W.fn[t2]

ZeroHeuristic ==
    ~heuristic.given \/ \A n \in DOMAIN heuristic.fn : heuristic.fn[n] = 0

\* the cost of edge e under a cost function that ignores the previous edge
PlainCost(e) ==
    IF W.kind = "lambda" THEN Halves(EdgeData(graph, e))
    ELSE W.fn[CHOOSE t \in DOMAIN W.fn : t[2] = e[1] /\ t[3] = e[2]]

RECURSIVE PlainTotal(_, _)
PlainTotal(p, k) ==
    IF k = 0 THEN 0 ELSE PlainTotal(p, k - 1) + PlainCost(<<p[k], p[k + 1]>>)

\* the heuristic never overestimates the cost of reaching the target
\* (costs that ignore the previous edge)
Admissible ==
    \/ ~heuristic.given
    \/ \A n \in DOMAIN heuristic.fn :
         \A p \in PathsFrom(<<n>>, target) :
            heuristic.fn[n] <= PlainTotal(p, Len(p) - 1)

\* the call has returned or raised, or was cut off
Ended == pc \notin {"length", "path", "run", "walk", "sum"}

\* following the parent links of explored from n ends at the source's marker
RECURSIVE ParentsEnd(_, _)
ParentsEnd(n, seen) ==
    \/ n = None
    \/ /\ n \notin seen
       /\ n \in DOMAIN explored
       /\ ParentsEnd(explored[n], seen \cup {n})

(***************************************************************************)
(* C1: a reachable target is returned a path to.                           *)
(***************************************************************************)
\* C1: whenever target can be reached from source and the heuristic is zero,
\* whatever the costs, or admissible with non-negative costs, astar_path
\* returns: the search is not cut off and does not end in NetworkXNoPath, the
\* walk back from the popped target reaches the source, every state before
\* the end has a next step; and the sequence returned starts at source, ends
\* at target and steps along edges of the graph
C1_ReturnsPath ==
    (Searchable /\ Reachable /\ (ZeroHeuristic \/ (Admissible /\ NonNegative))) =>
        /\ pc \notin {"unbounded", "NetworkXNoPath"}
        /\ pc = "walk" => ParentsEnd(node, {})
        /\ Returned => IsPath(path)
        /\ IF Ended THEN pc = "done" ELSE ENABLED Next

(***************************************************************************)
(* C2: non-negative costs that ignore the previous edge, heuristic zero or *)
(* admissible: no simple path from source to target costs less than the    *)
(* returned path.                                                          *)
(***************************************************************************)
C2_Optimal ==
    (Returned /\ NonNegative /\ IgnoresPrev /\ Admissible) =>
        \A p \in SimplePaths : Total(path) <= Total(p)

C2_Witness ==
    /\ Returned /\ NonNegative /\ IgnoresPrev /\ Admissible
    /\ heuristic.given /\ ~ZeroHeuristic
    /\ \E p \in SimplePaths : Total(path) < Total(p)

(***************************************************************************)
(* C4: non-negative history-sensitive costs, zero heuristic: no simple     *)
(* path from source to target costs less than the returned path, each path *)
(* costed by replaying the cost function over its edges.                   *)
(***************************************************************************)
C4_OptimalWithHistory ==
    (Returned /\ NonNegative /\ ~IgnoresPrev /\ ZeroHeuristic) =>
        \A p \in SimplePaths : Total(path) <= Total(p)

(***************************************************************************)
(* C5: astar_path_length returns the cost function summed over the edges   *)
(* of the path astar_path returned, the first edge with no previous edge   *)
(* and every later edge with the edge before it.                           *)
(***************************************************************************)
C5_LengthIsReplay ==
    (pc = "done" /\ call = "astar_path_length") => length = Total(path)

C5_Witness ==
    /\ pc = "done" /\ call = "astar_path_length"
    /\ Len(path) >= 3 /\ ~IgnoresPrev /\ length = Total(path) /\ length /= 0

(***************************************************************************)
(* The standard edge-only A* search (networkx's astar_path and             *)
(* astar_path_length): frontier entries carry no path and the cost of an   *)
(* edge is the weight of that edge alone.  It is run to completion on the  *)
(* call's arguments.                                                       *)
(***************************************************************************)
RefEntry(prio, seq, n, dist, parent) ==
    [prio |-> prio, seq |-> seq, node |-> n, dist |-> dist, parent |-> parent]

RECURSIVE RefExpandFrom(_, _, _, _)
RefExpandFrom(e, nbrs, i, st) ==
    IF i > Len(nbrs) THEN st
    ELSE
        LET neighbor == nbrs[i]
            ncost == e.dist + PlainCost(<<e.node, neighbor>>)
            known == neighbor \in DOMAIN st.enqueued
        IN  IF known /\ st.enqueued[neighbor].cost <= ncost
            THEN RefExpandFrom(e, nbrs, i + 1, st)
            ELSE
                LET h == IF known THEN st.enqueued[neighbor].h
                         ELSE H(heuristic, neighbor)
                IN  RefExpandFrom(e, nbrs, i + 1,
                        [st EXCEPT
                            !.enqueued = (neighbor :> [cost |-> ncost, h |-> h]) @@ @,
                            !.queue = @ \cup {RefEntry(ncost + h, st.c, neighbor,
                                                       ncost, e.node)},
                            !.c = @ + 1])

RECURSIVE RefWalk(_, _, _, _)
RefWalk(parents, p, n, fuel) ==
    IF n = None THEN [kind |-> "path", path |-> Reverse(p)]
    ELSE IF fuel = 0 THEN [kind |-> "unbounded", path |-> <<>>]
    ELSE RefWalk(parents, Append(p, n), parents[n], fuel - 1)

RECURSIVE RefSearch(_, _)
RefSearch(st, fuel) ==
    IF st.queue = {} THEN [kind |-> "NetworkXNoPath", path |-> <<>>]
    ELSE IF fuel = 0 THEN [kind |-> "unbounded", path |-> <<>>]
    ELSE
        LET e == MinEntry(st.queue)
            rest == [st EXCEPT !.queue = @ \ {e}]
            seen == e.node \in DOMAIN st.explored
        IN  IF e.node = target
            THEN RefWalk(st.explored, <<e.node>>, e.parent, Cardinality(graph.nodes))
            ELSE IF seen /\ st.explored[e.node] = None
            THEN RefSearch(rest, fuel - 1)
            ELSE IF seen /\ st.enqueued[e.node].cost < e.dist
            THEN RefSearch(rest, fuel - 1)
            ELSE RefSearch(
                    RefExpandFrom(e, Neighbors(graph, e.node), 1,
                        [rest EXCEPT !.explored = (e.node :> e.parent) @@ @]),
                    fuel - 1)

RefResult ==
    RefSearch([queue |-> {RefEntry(0, 0, source, 0, None)}, enqueued |-> <<>>,
               explored |-> <<>>, c |-> 1], MaxSeq + MaxSeq)

(***************************************************************************)
(* C3: when the cost function ignores the previous edge, astar_path        *)
(* returns the node sequence the edge-only search returns and              *)
(* astar_path_length returns that sequence's sum of edge weights.          *)
(***************************************************************************)
C3_SameAsEdgeOnly ==
    (Returned /\ IgnoresPrev) =>
        /\ RefResult.kind = "path"
        /\ path = RefResult.path
        /\ (pc = "done" /\ call = "astar_path_length") =>
                length = PlainTotal(RefResult.path, Len(RefResult.path) - 1)

C3_Witness ==
    /\ pc = "done" /\ call = "astar_path_length" /\ IgnoresPrev
    /\ path = RefResult.path /\ Len(path) >= 3
    /\ \E n \in Universe : writes[n] >= 2

(***************************************************************************)
(* C6: the test-suite's scenario.  By attribute the path from S to T is    *)
(* S, A2, B2, C2, T at cost 4; by dependent_weight it is S, A1, T and the  *)
(* length is -5.5, which is -11 halves.                                    *)
(***************************************************************************)
C6_Scenario ==
    (graph = Fixture /\ source = "S" /\ target = "T" /\ ~heuristic.given
        /\ pc \notin {"length", "path", "run", "walk"}) =>
        /\ Returned
        /\ IF weight = ByName
           THEN /\ path = <<"S", "A2", "B2", "C2", "T">>
                /\ Total(path) = Halves(4)
                /\ Total(<<"S", "A1", "T">>) = Halves(5)
           ELSE /\ weight = Callable(DependentTable(Fixture, "S"))
                /\ path = <<"S", "A1", "T">>
                /\ (pc = "done" /\ call = "astar_path_length") => length = -11

C6_Witness ==
    /\ graph = Fixture /\ weight.callable
    /\ pc = "done" /\ call = "astar_path_length"
    /\ path = <<"S", "A1", "T">> /\ length = -11

(***************************************************************************)
(* C7: with source or target absent from the graph both entry points end   *)
(* in NodeNotFound at their first step: the weight is not resolved, no     *)
(* frontier entry is created and neither the heuristic nor the cost        *)
(* function is called.                                                     *)
(***************************************************************************)
C7_NodeNotFound ==
    (~Present) =>
        /\ pc \in {IF call = "astar_path_length" THEN "length" ELSE "path",
                   "NodeNotFound"}
        /\ wf = Unset
        /\ queue = {} /\ c = 0
        /\ wcalls = 0 /\ \A n \in Universe : hcalls[n] = 0

C7_Witness ==
    /\ pc = "NodeNotFound" /\ call = "astar_path_length"
    /\ source \in graph.nodes /\ target \notin graph.nodes
    /\ graph.multigraph /\ ~weight.callable

(***************************************************************************)
(* C8: both nodes in the graph and the target not reachable: the call ends *)
(* in NetworkXNoPath, with the frontier empty.                             *)
(***************************************************************************)
\* C8 as claimed, for every cost function: a call that has ended has ended in
\* NetworkXNoPath
C8_NoPathAlways ==
    (Searchable /\ ~Reachable /\ Ended) => (pc = "NetworkXNoPath" /\ queue = {})

\* C8 for cost functions without negative values: the call can take a step
\* until it has ended, the search is never cut off as unbounded, and it has
\* ended in NetworkXNoPath
C8_NoPath ==
    (Searchable /\ ~Reachable /\ NonNegative) =>
        IF Ended THEN pc = "NetworkXNoPath" /\ queue = {} ELSE ENABLED Next

\* C8 for cost functions without negative values, as a property of the
\* behaviours of FairSpec: the call eventually ends in NetworkXNoPath
C8_NoPathEventually ==
    (Searchable /\ ~Reachable /\ NonNegative) ~> (pc = "NetworkXNoPath" /\ queue = {})

C8_Witness ==
    /\ pc = "NetworkXNoPath" /\ queue = {} /\ Searchable /\ ~Reachable
    /\ NonNegative /\ Cardinality(DOMAIN explored) >= 3

(***************************************************************************)
(* C9: an attribute name on a multigraph ends the call in                  *)
(* NotImplementedError before the search begins; a callable is the cost    *)
(* function as it is, multigraph or not; the cost resolved from an         *)
(* attribute name is the current edge's attribute after every previous     *)
(* edge.                                                                   *)
(***************************************************************************)
C9_WeightResolution ==
    /\ (Present /\ ~weight.callable /\ graph.multigraph) =>
            /\ pc \in {IF call = "astar_path_length" THEN "length" ELSE "path",
                       "NotImplementedError"}
            /\ queue = {} /\ c = 0 /\ wcalls = 0
    /\ weight.callable =>
            /\ pc /= "NotImplementedError"
            /\ wf /= Unset => (wf.kind = "callable" /\ wf.fn = weight.fn)
    /\ (~weight.callable /\ ~graph.multigraph /\ wf /= Unset) =>
            \A e \in graph.edges :
                \A prev \in {<<>>} \cup {d \in graph.edges : d[2] = e[1]} :
                    Cost(wf, graph, prev, e) = Halves(graph.attr[e])

C9_Witness ==
    /\ pc = "NotImplementedError" /\ call = "astar_path"
    /\ Present /\ ~weight.callable /\ graph.multigraph

(***************************************************************************)
(* C10: the entries of the explored table.                                 *)
(***************************************************************************)
\* C10 as claimed: an entry, once written, is neither removed nor changed by
\* any later step
C10_WrittenOnce ==
    [][\A n \in DOMAIN explored :
            n \in DOMAIN explored' /\ explored'[n] = explored[n]]_vars

\* C10: an entry is never removed and the source's entry never changes; the entry
\* of another node changes only when an entry of that node is popped whose
\* accumulated cost is the best known one, and then to that entry's parent;
\* with non-negative costs and the zero heuristic no entry changes
C10_Entries ==
    [][\A n \in DOMAIN explored :
            /\ n \in DOMAIN explored'
            /\ explored[n] = None => explored'[n] = None
            /\ explored'[n] /= explored[n] =>
                    /\ pc = "run" /\ Popped.node = n
                    /\ Popped.dist = enqueued[n].cost
                    /\ explored'[n] = Popped.parent
                    /\ ~(NonNegative /\ ZeroHeuristic)]_vars

C10_Witness ==
    /\ pc = "done"
    /\ \E n \in DOMAIN explored :
         writes[n] >= 2 /\ explored[n] /= None /\ n \in Range(path)

(***************************************************************************)
(* C11: the reconstruction of the path.                                    *)
(***************************************************************************)
\* C11: the reconstruction of the path ends, whatever the graph, heuristic and
\* cost function: the parent links followed from the popped target entry's
\* parent form no cycle and reach the source's marker
C11_WalkEnds ==
    /\ pc = "walk" => ParentsEnd(node, {})
    /\ ~(pc = "unbounded" /\ path /= <<>>)

(***************************************************************************)
(* C12: the length returned and the cost accumulated by the search.        *)
(***************************************************************************)
\* C12: whenever the search has popped the target, the value astar_path_length
\* returns equals the accumulated cost of the entry popped for the target
C12_LengthIsAccumulated ==
    (pc = "done" /\ call = "astar_path_length") => length = curdist

(***************************************************************************)
(* C13: the heuristic is evaluated once per node.                          *)
(***************************************************************************)
\* C13: the heuristic has been called once for each node of the enqueued table
\* and for no other node, the table stores the value of that call, and every
\* frontier entry pushed for a node has the priority of its accumulated cost
\* plus that stored value
C13_HeuristicOnce ==
    /\ \A n \in DOMAIN hcalls :
            hcalls[n] = IF n \in DOMAIN enqueued THEN 1 ELSE 0
    /\ \A n \in DOMAIN enqueued : enqueued[n].h = H(heuristic, n)
    /\ \A e \in queue :
            IF e.parent = None THEN e.prio = 0 /\ e.dist = 0
            ELSE /\ e.node \in DOMAIN enqueued
                 /\ e.prio = e.dist + enqueued[e.node].h

\* two entries of one node with a heuristic value other than zero wait in the
\* frontier
C13_Witness ==
    \E e \in queue : \E f \in queue :
        /\ e.node = f.node /\ e.seq < f.seq
        /\ enqueued[e.node].h > 0
        /\ hcalls[e.node] = 1

(***************************************************************************)
(* C14: the order of the pops and the sequence numbers.                    *)
(***************************************************************************)
\* C14: every pop removes exactly the entry of the smallest priority, among
\* equal priorities the one pushed first; the entries a step pushes take the
\* next sequence numbers, so the numbers rise in push order and none repeats,
\* and no two frontier entries have the same priority and sequence number
C14_PopOrder ==
    [][/\ \A e \in queue' : \A f \in queue' :
              (e.prio = f.prio /\ e.seq = f.seq) => e = f
       /\ \A f \in queue' \ queue : c <= f.seq /\ f.seq < c'
       /\ \A f \in queue : f.seq < c
       /\ c' = c + Cardinality(queue' \ queue)
       /\ (pc = "run" /\ queue /= {} /\ pc' /= "unbounded") =>
              \E e \in queue :
                  /\ queue \ queue' = {e}
                  /\ \A f \in queue \ {e} :
                        e.prio < f.prio \/ (e.prio = f.prio /\ e.seq < f.seq)]_vars

\* the target's entry has been popped ahead of a later entry of the same
\* priority
C14_Witness ==
    /\ pc = "walk" /\ ~heuristic.given
    /\ \E f \in queue : f.prio = curdist /\ f.node /= target

(***************************************************************************)
(* C15: a parent of None marks the source and nothing else.                *)
(***************************************************************************)
\* C15: the source is the only node whose explored entry is None and its entry
\* stays None; every frontier entry but the seed has a parent; a later entry of
\* the source, whatever its cost, is popped without being expanded, so the
\* source is expanded once and never again
C15_SourceMarker ==
    [][/\ \A n \in DOMAIN explored' : explored'[n] = None <=> n = source
       /\ source \in DOMAIN explored =>
              (source \in DOMAIN explored' /\ explored'[source] = None)
       /\ \A e \in queue' :
              IF e.seq = 0 THEN e.parent = None /\ e.node = source
              ELSE e.parent /= None
       /\ (pc = "run" /\ queue /= {} /\ pc' = "run"
                /\ Popped.node = source /\ Popped.parent /= None) =>
              /\ queue' = queue \ {Popped}
              /\ UNCHANGED <<explored, enqueued, c, hcalls, wcalls, writes>>
       /\ writes'[source] <= 1
       /\ writes'[source] = 1 <=> source \in DOMAIN explored'
       /\ (source /= target
                /\ pc' \in {"walk", "sum", "done", "NetworkXNoPath", "unbounded"}) =>
              writes'[source] = 1]_vars

\* the source was entered again at a cost below zero and every entry of it has
\* been popped; it was expanded once
C15_Witness ==
    /\ pc = "run" /\ queue = {}
    /\ source \in DOMAIN enqueued /\ enqueued[source].cost < 0
    /\ writes[source] = 1 /\ explored[source] = None

(***************************************************************************)
(* C16: the cost of an expanded entry is the best known cost of its node.  *)
(***************************************************************************)
\* C16: whenever a popped entry of a node other than the source is finalized
\* and expanded, on its first pop too, its accumulated cost equals the cost
\* the enqueued table holds for its node at that moment; and the cost the
\* enqueued table holds for a node never rises: when it changes it gets
\* strictly smaller
C16_BestKnown ==
    [][/\ (pc = "run" /\ queue /= {} /\ writes' /= writes
                /\ Popped.node /= source) =>
              /\ writes' = [writes EXCEPT ![Popped.node] = @ + 1]
              /\ Popped.node \in DOMAIN enqueued
              /\ Popped.dist = enqueued[Popped.node].cost
       /\ \A n \in DOMAIN enqueued :
              /\ n \in DOMAIN enqueued'
              /\ enqueued'[n].cost <= enqueued[n].cost
              /\ enqueued'[n] /= enqueued[n] =>
                      enqueued'[n].cost < enqueued[n].cost]_vars

\* a node has been expanded a second time, at a cost the table lowered after
\* its first expansion, while its costlier entry still waits in the frontier
C16_Witness ==
    \E e \in queue :
        /\ e.node /= source /\ writes[e.node] >= 2
        /\ enqueued[e.node].cost < e.dist
        /\ \E f \in queue : f.parent = e.node /\ f.seq > e.seq

(***************************************************************************)
(* C17: every frontier entry is consistent with its own path.              *)
(***************************************************************************)
\* C17: the path of every frontier entry starts at the source, ends at the
\* entry's node and runs along edges of the graph; its node before the last
\* is the entry's parent, which is None exactly when the path has one node;
\* the entry's accumulated cost is the cost function replayed over the path;
\* so the previous edge of an expansion is (parent, node), none for the seed
C17_EntryConsistent ==
    \A e \in queue :
        /\ Len(e.path) >= 1
        /\ e.path[1] = source
        /\ Last(e.path) = e.node
        /\ e.parent = None <=> Len(e.path) = 1
        /\ Len(e.path) >= 2 => e.path[Len(e.path) - 1] = e.parent
        /\ \A i \in 1..(Len(e.path) - 1) :
                <<e.path[i], e.path[i + 1]>> \in graph.edges
        /\ e.dist = Total(e.path)
        /\ PrevEdge(e) = IF e.parent = None THEN <<>> ELSE <<e.parent, e.node>>

\* an entry three edges from the source waits in the frontier, its cost
\* accumulated under a cost function that looks at the previous edge
C17_Witness ==
    /\ Searchable /\ ~IgnoresPrev
    /\ \E e \in queue : Len(e.path) >= 4 /\ e.dist /= 0

(***************************************************************************)
(* C18: without negative values the call terminates.                       *)
(***************************************************************************)
\* C18: when no cost and no heuristic value is negative, the call with source
\* and target in the graph takes finitely many iterations and ends with the
\* target popped and the path returned, or with the frontier empty and
\* NetworkXNoPath: no run is cut off, every state before the end has a next
\* step, and each entry pushed for a node is strictly cheaper than the entries
\* pushed for that node before it
C18_Terminates ==
    NonNegative =>
        /\ pc /= "unbounded"
        /\ c < MaxSeq
        /\ IF Ended THEN pc \in {"done", "NetworkXNoPath"} ELSE ENABLED Next
        /\ pc = "walk" => path[1] = target
        /\ pc \in {"sum", "done"} => Last(path) = target
        /\ pc = "NetworkXNoPath" => queue = {}
        /\ \A e \in queue : \A f \in queue :
                (e.node = f.node /\ e.seq < f.seq) => f.dist < e.dist
        /\ \A e \in queue :
                e.parent /= None => enqueued[e.node].cost <= e.dist

\* a call without negative values has returned after a node was expanded a
\* second time
C18_Witness ==
    /\ NonNegative /\ pc = "done"
    /\ heuristic.given
    /\ \E n \in DOMAIN writes : writes[n] >= 2

(***************************************************************************)
(* C19: NetworkXNoPath only for a target that cannot be reached.           *)
(***************************************************************************)
\* the nodes that can be reached from the nodes of ns along edges
RECURSIVE ReachFrom(_)
ReachFrom(ns) ==
    LET more == ns \cup {e[2] : e \in {d \in graph.edges : d[1] \in ns}}
    IN  IF more = ns THEN ns ELSE ReachFrom(more)

\* C19: whenever the frontier is empty, and so whenever NetworkXNoPath is
\* raised, every node that can be reached from the source has been finalized
\* and expanded and the target is not one of them
C19_NoPathOnlyUnreachable ==
    ((pc = "run" /\ queue = {}) \/ pc = "NetworkXNoPath") =>
        /\ \A n \in ReachFrom({source}) : n \in DOMAIN explored /\ writes[n] >= 1
        /\ target \notin ReachFrom({source})
        /\ ~Reachable

\* NetworkXNoPath after a search that expanded a node twice and left the
\* target, a node of the graph, unreached
C19_Witness ==
    /\ pc = "NetworkXNoPath"
    /\ Cardinality(ReachFrom({source})) >= 3
    /\ \E n \in DOMAIN writes : writes[n] >= 2

(***************************************************************************)
(* C20: source equal to target.                                            *)
(***************************************************************************)
\* C20: when source and target are the same node of the graph, the first pop
\* returns the path of that one node: no node is finalized or expanded, the
\* heuristic and the cost function are never called, and astar_path_length
\* returns 0
C20_SourceIsTarget ==
    (Searchable /\ source = target) =>
        /\ pc \in {"length", "path", "run", "walk", "sum", "done"}
        /\ explored = <<>> /\ enqueued = <<>>
        /\ \A n \in DOMAIN writes : writes[n] = 0
        /\ \A n \in DOMAIN hcalls : hcalls[n] = 0
        /\ wcalls = 0
        /\ c <= 1
        /\ pc = "run" => queue = {Entry(0, 0, source, 0, None, <<source>>)}
        /\ pc = "walk" => (path = <<source>> /\ node = None /\ queue = {})
        /\ pc \in {"sum", "done"} => path = <<source>>
        /\ pc = "done" => length = 0
        /\ ENABLED Next <=> pc /= "done"

\* astar_path_length has returned for a source that is the target and has an
\* edge leaving it
C20_Witness ==
    /\ Searchable /\ source = target
    /\ pc = "done" /\ call = "astar_path_length"
    /\ path = <<source>> /\ length = 0
    /\ \E e \in graph.edges : e[1] = source

====
